---- MODULE Spec2Model ----
(***************************************************************************)
(* KzgInfo (core/lib/types/src/kzg.rs): construction of the 4844 blob      *)
(* commitment record from zksync pubdata, its fixed-length codec and its   *)
(* compact 144-byte projection.                                            *)
(*                                                                         *)
(* Byte arrays are sequences over 0..255; a Rust index i is the TLA+       *)
(* index i + 1, and a Rust range a..b is the TLA+ range a+1..b.            *)
(* The hash functions, the repacking transform and the pairing primitives  *)
(* belong to other crates: every call of one is a step whose result is     *)
(* drawn from a small set of well-sized values (or Err, for the fallible   *)
(* ones), and is recorded in the log `calls`.                              *)
(***************************************************************************)
EXTENDS Integers, Sequences, FiniteSets, TLC

\* ------------------------------------------------------------------ sizes
\* Number of field elements of a blob (4096 in zkevm_circuits); scaled down.
ELEMENTS_PER_4844_BLOCK == 2

BLOB_CHUNK_SIZE == 31

BYTES_PER_FIELD_ELEMENT == 32

BYTES_PER_BLOB == ELEMENTS_PER_4844_BLOCK * BYTES_PER_FIELD_ELEMENT

BYTES_PER_BLOB_ZK_SYNC == BLOB_CHUNK_SIZE * ELEMENTS_PER_4844_BLOCK

BYTES_PER_PUBDATA_COMMITMENT == 144

VERSIONED_HASH_VERSION_KZG == 1

SERIALIZED_SIZE == BYTES_PER_BLOB + 48 + 32 + 32 + 48 + 32 + 48

\* ---------------------------------------------------------------- helpers
None == <<>>

Some(x) == <<x>>

IsSome(o) == Len(o) = 1

Unwrap(o) == o[1]

\* [0u8; n]
Zeros(n) == [i \in 1..n |-> 0]

\* &s[lo..hi]
Slice(s, lo, hi) == SubSeq(s, lo + 1, hi)

\* dst[lo..hi].copy_from_slice(src)
CopyFromSlice(dst, lo, hi, src) ==
    [i \in 1..Len(dst) |-> IF lo < i /\ i <= hi THEN src[i - lo] ELSE dst[i]]

\* A byte string of length n whose bytes all differ from their neighbours,
\* so that a value read at a wrong offset is a different value.
Pattern(seed, n) == [i \in 1..n |-> (seed + 7 * (i - 1)) % 256]

\* ------------------------------------------------------------------ codec
\* This variant packs the blob proof where the opening proof belongs.
to_pubdata_commitment_blob_proof(self) ==
    LET res0 == Zeros(BYTES_PER_PUBDATA_COMMITMENT)
        truncated_opening_point ==
            CopyFromSlice(Zeros(16), 0, 16, Slice(self.opening_point, 16, 32))
        res1 == CopyFromSlice(res0, 0, 16, truncated_opening_point)
        res2 == CopyFromSlice(res1, 16, 48, self.opening_value)
        res3 == CopyFromSlice(res2, 48, 96, self.kzg_commitment)
        res4 == CopyFromSlice(res3, 96, 144, self.blob_proof)
    IN  res4

\* KzgInfo::to_pubdata_commitment
to_pubdata_commitment(self) ==
    LET res0 == Zeros(BYTES_PER_PUBDATA_COMMITMENT)
        truncated_opening_point ==
            CopyFromSlice(Zeros(16), 0, 16, Slice(self.opening_point, 16, 32))
        res1 == CopyFromSlice(res0, 0, 16, truncated_opening_point)
        res2 == CopyFromSlice(res1, 16, 48, self.opening_value)
        res3 == CopyFromSlice(res2, 48, 96, self.kzg_commitment)
        res4 == CopyFromSlice(res3, 96, 144, self.opening_proof)
    IN  res4

\* This variant writes the versioned hash before the opening proof.
to_bytes_reordered(self) ==
    LET res0 == Zeros(SERIALIZED_SIZE)
        ptr0 == 0
        res1 == CopyFromSlice(res0, ptr0, ptr0 + BYTES_PER_BLOB, self.blob)
        ptr1 == ptr0 + BYTES_PER_BLOB
        res2 == CopyFromSlice(res1, ptr1, ptr1 + 48, self.kzg_commitment)
        ptr2 == ptr1 + 48
        res3 == CopyFromSlice(res2, ptr2, ptr2 + 32, self.opening_point)
        ptr3 == ptr2 + 32
        res4 == CopyFromSlice(res3, ptr3, ptr3 + 32, self.opening_value)
        ptr4 == ptr3 + 32
        res5 == CopyFromSlice(res4, ptr4, ptr4 + 32, self.versioned_hash)
        ptr5 == ptr4 + 32
        res6 == CopyFromSlice(res5, ptr5, ptr5 + 48, self.opening_proof)
        ptr6 == ptr5 + 48
        res7 == CopyFromSlice(res6, ptr6, ptr6 + 48, self.blob_proof)
        ptr7 == ptr6 + 48
    IN  IF ptr7 = SERIALIZED_SIZE THEN Some(res7) ELSE None

\* KzgInfo::to_bytes; None stands for the panic of the final assert_eq!.
to_bytes(self) ==
    LET res0 == Zeros(SERIALIZED_SIZE)
        ptr0 == 0
        res1 == CopyFromSlice(res0, ptr0, ptr0 + BYTES_PER_BLOB, self.blob)
        ptr1 == ptr0 + BYTES_PER_BLOB
        res2 == CopyFromSlice(res1, ptr1, ptr1 + 48, self.kzg_commitment)
        ptr2 == ptr1 + 48
        res3 == CopyFromSlice(res2, ptr2, ptr2 + 32, self.opening_point)
        ptr3 == ptr2 + 32
        res4 == CopyFromSlice(res3, ptr3, ptr3 + 32, self.opening_value)
        ptr4 == ptr3 + 32
        res5 == CopyFromSlice(res4, ptr4, ptr4 + 48, self.opening_proof)
        ptr5 == ptr4 + 48
        res6 == CopyFromSlice(res5, ptr5, ptr5 + 32, self.versioned_hash)
        ptr6 == ptr5 + 32
        res7 == CopyFromSlice(res6, ptr6, ptr6 + 48, self.blob_proof)
        ptr7 == ptr6 + 48
    IN  IF ptr7 = SERIALIZED_SIZE THEN Some(res7) ELSE None

\* This variant reads the two 48-byte proofs from each other's place.
from_slice_swapped_proofs(data) ==
    IF Len(data) # SERIALIZED_SIZE THEN None
    ELSE
    LET ptr0 == 0
        blob == Slice(data, ptr0, ptr0 + BYTES_PER_BLOB)
        ptr1 == ptr0 + BYTES_PER_BLOB
        kzg_commitment == Slice(data, ptr1, ptr1 + 48)
        ptr2 == ptr1 + 48
        opening_point == Slice(data, ptr2, ptr2 + 32)
        ptr3 == ptr2 + 32
        opening_value == Slice(data, ptr3, ptr3 + 32)
        ptr4 == ptr3 + 32
        blob_proof == Slice(data, ptr4, ptr4 + 48)
        ptr5 == ptr4 + 48
        versioned_hash == Slice(data, ptr5, ptr5 + 32)
        ptr6 == ptr5 + 32
        opening_proof == Slice(data, ptr6, ptr6 + 48)
        ptr7 == ptr6 + 48
    IN  IF ptr7 # SERIALIZED_SIZE THEN None
        ELSE Some([blob |-> blob, kzg_commitment |-> kzg_commitment,
                   opening_point |-> opening_point, opening_value |-> opening_value,
                   opening_proof |-> opening_proof, versioned_hash |-> versioned_hash,
                   blob_proof |-> blob_proof])

\* This variant accepts any input that is long enough.
from_slice_at_least(data) ==
    IF Len(data) < SERIALIZED_SIZE THEN None
    ELSE
    LET ptr0 == 0
        blob == Slice(data, ptr0, ptr0 + BYTES_PER_BLOB)
        ptr1 == ptr0 + BYTES_PER_BLOB
        kzg_commitment == Slice(data, ptr1, ptr1 + 48)
        ptr2 == ptr1 + 48
        opening_point == Slice(data, ptr2, ptr2 + 32)
        ptr3 == ptr2 + 32
        opening_value == Slice(data, ptr3, ptr3 + 32)
        ptr4 == ptr3 + 32
        opening_proof == Slice(data, ptr4, ptr4 + 48)
        ptr5 == ptr4 + 48
        versioned_hash == Slice(data, ptr5, ptr5 + 32)
        ptr6 == ptr5 + 32
        blob_proof == Slice(data, ptr6, ptr6 + 48)
        ptr7 == ptr6 + 48
    IN  IF ptr7 # SERIALIZED_SIZE THEN None
        ELSE Some([blob |-> blob, kzg_commitment |-> kzg_commitment,
                   opening_point |-> opening_point, opening_value |-> opening_value,
                   opening_proof |-> opening_proof, versioned_hash |-> versioned_hash,
                   blob_proof |-> blob_proof])

\* KzgInfo::from_slice; None stands for the panic of either assert_eq!.
\* Bytes48::from_bytes(..).unwrap() only checks the length, which is 48.
from_slice(data) ==
    IF Len(data) # SERIALIZED_SIZE THEN None
    ELSE
    LET ptr0 == 0
        blob == Slice(data, ptr0, ptr0 + BYTES_PER_BLOB)
        ptr1 == ptr0 + BYTES_PER_BLOB
        kzg_commitment == Slice(data, ptr1, ptr1 + 48)
        ptr2 == ptr1 + 48
        opening_point == Slice(data, ptr2, ptr2 + 32)
        ptr3 == ptr2 + 32
        opening_value == Slice(data, ptr3, ptr3 + 32)
        ptr4 == ptr3 + 32
        opening_proof == Slice(data, ptr4, ptr4 + 48)
        ptr5 == ptr4 + 48
        versioned_hash == Slice(data, ptr5, ptr5 + 32)
        ptr6 == ptr5 + 32
        blob_proof == Slice(data, ptr6, ptr6 + 48)
        ptr7 == ptr6 + 48
    IN  IF ptr7 # SERIALIZED_SIZE THEN None
        ELSE Some([blob |-> blob, kzg_commitment |-> kzg_commitment,
                   opening_point |-> opening_point, opening_value |-> opening_value,
                   opening_proof |-> opening_proof, versioned_hash |-> versioned_hash,
                   blob_proof |-> blob_proof])

\* ------------------------------------------------------------------ state
VARIABLES
    pc,                  \* position in the run: new .. done, the codec calls, panic
    panic,               \* which assertion or unwrap ended the run, or None
    pubdata,             \* argument of KzgInfo::new
    zksync_blob,         \* locals of KzgInfo::new, None until assigned
    keccak256_hasher,    \* bytes fed to the Keccak256 hasher since its last reset
    linear_hash,
    blob,
    kzg_commitment,
    versioned_hash_bytes,
    versioned_hash,
    opening_point_bytes,
    opening_point,
    opening_proof,
    opening_value,
    blob_proof,
    info,                \* Some(KzgInfo) once new has returned
    calls,               \* log of the calls into other crates: fn, args, ret
    encoded,             \* Some(to_bytes(info))
    data,                \* Some(argument of from_slice)
    decoded,             \* Some(from_slice(data))
    pubdata_commitment,  \* Some(info.to_pubdata_commitment())
    decoded_commitment   \* Some(decoded.to_pubdata_commitment())

new_locals ==
    <<zksync_blob, keccak256_hasher, linear_hash, blob, kzg_commitment,
      versioned_hash_bytes, versioned_hash, opening_point_bytes, opening_point,
      opening_proof, opening_value, blob_proof>>

codec_vars == <<encoded, data, decoded, pubdata_commitment, decoded_commitment>>

vars == <<pc, panic, pubdata, new_locals, info, calls, codec_vars>>

\* ----------------------------------------------------------------- inputs
PubdataLens ==
    {0, 1, BYTES_PER_BLOB_ZK_SYNC - 1, BYTES_PER_BLOB_ZK_SYNC,
     BYTES_PER_BLOB_ZK_SYNC + 1, BYTES_PER_BLOB_ZK_SYNC + 2}

PubdataSeeds == {1, 255}

PubdataInputs == {Pattern(s, n) : s \in PubdataSeeds, n \in PubdataLens}

\* 32-byte digests a hasher may return; byte 0 of each differs from 0x01.
Digests == {Pattern(3, 32), Pattern(200, 32)}

\* Outputs of zksync_pubdata_into_ethereum_4844_data: always BYTES_PER_BLOB bytes.
RepackedBlobs == {Pattern(5, BYTES_PER_BLOB), Pattern(111, BYTES_PER_BLOB)}

Ok(v) == [ok |-> TRUE, val |-> v]

Err == [ok |-> FALSE, val |-> <<>>]

\* Result<KzgCommitment, Error>
CommitResults == {Ok(Pattern(10, 48)), Ok(Pattern(90, 48)), Err}

\* Result<(KzgProof, Bytes32), Error>
OpenResults ==
    {Ok(<<Pattern(20, 48), Pattern(60, 32)>>),
     Ok(<<Pattern(130, 48), Pattern(220, 32)>>), Err}

\* Result<KzgProof, Error>
BlobProofResults == {Ok(Pattern(40, 48)), Ok(Pattern(170, 48)), Err}

Call(f, a, r) == [fn |-> f, args |-> a, ret |-> r]

\* `s` with every byte of s[lo..hi] changed.
Tamper(s, lo, hi) ==
    [i \in 1..Len(s) |-> IF lo < i /\ i <= hi THEN (s[i] + 1) % 256 ELSE s[i]]

\* The byte ranges of a serialized record that an input may differ in: each
\* field alone, and the versioned hash together with the blob proof.
TamperRanges ==
    LET b == BYTES_PER_BLOB
    IN  {<<0, b>>, <<b, b + 48>>, <<b + 48, b + 80>>, <<b + 80, b + 112>>,
         <<b + 112, b + 160>>, <<b + 160, b + 192>>, <<b + 192, b + 240>>,
         <<b + 160, b + 240>>}

\* Arguments from_slice is called with, given a serialized record.
SliceInputs(enc) ==
    {enc, Slice(enc, 0, Len(enc) - 1), enc \o <<0>>, <<>>}
        \cup {Tamper(enc, r[1], r[2]) : r \in TamperRanges}

\* ------------------------------------------------------------------- Init
Init ==
    /\ pc = "new"
    /\ panic = None
    /\ pubdata \in PubdataInputs
    /\ zksync_blob = None
    /\ keccak256_hasher = <<>>
    /\ linear_hash = None
    /\ blob = None
    /\ kzg_commitment = None
    /\ versioned_hash_bytes = None
    /\ versioned_hash = None
    /\ opening_point_bytes = None
    /\ opening_point = None
    /\ opening_proof = None
    /\ opening_value = None
    /\ blob_proof = None
    /\ info = None
    /\ calls = <<>>
    /\ encoded = None
    /\ data = None
    /\ decoded = None
    /\ pubdata_commitment = None
    /\ decoded_commitment = None

\* ----------------------------------------------------------- KzgInfo::new
\* assert!(pubdata.len() <= BYTES_PER_BLOB) would let 32-byte elements in.
fits_4844_size(p) == Len(p) <= BYTES_PER_BLOB

\* assert!(pubdata.len() <= BYTES_PER_BLOB_ZK_SYNC)
fits(p) == Len(p) <= BYTES_PER_BLOB_ZK_SYNC

\* Padding on the left: the pubdata copied to the end of the buffer.
pad_left(p) ==
    CopyFromSlice(Zeros(BYTES_PER_BLOB_ZK_SYNC),
                  BYTES_PER_BLOB_ZK_SYNC - Len(p), BYTES_PER_BLOB_ZK_SYNC, p)

\* let mut zksync_blob = [0u8; ..]; zksync_blob[0..pubdata.len()].copy_from_slice(&pubdata)
pad_right(p) == CopyFromSlice(Zeros(BYTES_PER_BLOB_ZK_SYNC), 0, Len(p), p)

\* The version byte written at the end of the digest.
with_version_tag_last(d) == [d EXCEPT ![32] = VERSIONED_HASH_VERSION_KZG]

\* versioned_hash_bytes[0] = VERSIONED_HASH_VERSION_KZG
with_version_tag(d) == [d EXCEPT ![1] = VERSIONED_HASH_VERSION_KZG]

\* The digest kept whole as the opening point.
untruncated_opening_point(d) == d

\* opening_point = [0u8; 32]; opening_point[16..].copy_from_slice(&opening_point_bytes[16..])
truncate_opening_point(d) == CopyFromSlice(Zeros(32), 16, 32, Slice(d, 16, 32))

NewAssertLen ==
    /\ pc = "new"
    /\ IF fits(pubdata)
       THEN pc' = "pad" /\ UNCHANGED panic
       ELSE pc' = "panic" /\ panic' = Some("CapacityExceeded")
    /\ UNCHANGED <<pubdata, new_locals, info, calls, codec_vars>>

NewPad ==
    /\ pc = "pad"
    /\ zksync_blob' = pad_right(pubdata)
    /\ pc' = "linear_hash"
    /\ UNCHANGED <<panic, pubdata, keccak256_hasher, linear_hash, blob, kzg_commitment,
                   versioned_hash_bytes, versioned_hash, opening_point_bytes,
                   opening_point, opening_proof, opening_value, blob_proof,
                   info, calls, codec_vars>>

\* Keccak256::new(); update(zksync_blob); finalize_reset()
NewLinearHash ==
    /\ pc = "linear_hash"
    /\ \E d \in Digests :
          /\ linear_hash' = d
          /\ calls' = Append(calls, Call("keccak256", keccak256_hasher \o zksync_blob, d))
    /\ keccak256_hasher' = <<>>
    /\ pc' = "repack"
    /\ UNCHANGED <<panic, pubdata, zksync_blob, blob, kzg_commitment,
                   versioned_hash_bytes, versioned_hash, opening_point_bytes,
                   opening_point, opening_proof, opening_value, blob_proof,
                   info, codec_vars>>

\* zksync_pubdata_into_ethereum_4844_data(&zksync_blob); Blob::new(..try_into().unwrap())
NewRepack ==
    /\ pc = "repack"
    /\ \E b \in RepackedBlobs :
          /\ blob' = b
          /\ calls' = Append(calls, Call("repack", zksync_blob, b))
    /\ pc' = "commit"
    /\ UNCHANGED <<panic, pubdata, zksync_blob, keccak256_hasher, linear_hash,
                   kzg_commitment, versioned_hash_bytes, versioned_hash,
                   opening_point_bytes, opening_point, opening_proof, opening_value,
                   blob_proof, info, codec_vars>>

\* A failed commit replaced by a zero commitment instead of unwrapped.
NewCommit_swallow ==
    /\ pc = "commit"
    /\ \E r \in CommitResults :
          /\ calls' = Append(calls, Call("blob_to_kzg_commitment", blob, r))
          /\ kzg_commitment' = IF r.ok THEN r.val ELSE Zeros(48)
          /\ pc' = "versioned_hash"
          /\ UNCHANGED panic
    /\ UNCHANGED <<pubdata, zksync_blob, keccak256_hasher, linear_hash, blob,
                   versioned_hash_bytes, versioned_hash, opening_point_bytes,
                   opening_point, opening_proof, opening_value, blob_proof,
                   info, codec_vars>>

\* KzgCommitment::blob_to_kzg_commitment(&blob, kzg_settings).unwrap()
NewCommit ==
    /\ pc = "commit"
    /\ \E r \in CommitResults :
          /\ calls' = Append(calls, Call("blob_to_kzg_commitment", blob, r))
          /\ IF r.ok
             THEN kzg_commitment' = r.val /\ pc' = "versioned_hash" /\ UNCHANGED panic
             ELSE pc' = "panic" /\ panic' = Some("blob_to_kzg_commitment")
                  /\ UNCHANGED kzg_commitment
    /\ UNCHANGED <<pubdata, zksync_blob, keccak256_hasher, linear_hash, blob,
                   versioned_hash_bytes, versioned_hash, opening_point_bytes,
                   opening_point, opening_proof, opening_value, blob_proof,
                   info, codec_vars>>

\* The version byte set on the Bytes32 copy only; the digest buffer stays raw.
NewVersionedHash_tag_copy_only ==
    /\ pc = "versioned_hash"
    /\ \E d \in Digests :
          /\ calls' = Append(calls, Call("sha256", kzg_commitment, d))
          /\ versioned_hash_bytes' = d
          /\ versioned_hash' = with_version_tag(d)
    /\ pc' = "opening_point_update"
    /\ UNCHANGED <<panic, pubdata, zksync_blob, keccak256_hasher, linear_hash, blob,
                   kzg_commitment, opening_point_bytes, opening_point, opening_proof,
                   opening_value, blob_proof, info, codec_vars>>

\* Sha256::new(); update(kzg_commitment.to_bytes()); finalize(); set byte 0;
\* Bytes32::from_bytes(&versioned_hash_bytes)
NewVersionedHash ==
    /\ pc = "versioned_hash"
    /\ \E d \in Digests :
          /\ calls' = Append(calls, Call("sha256", kzg_commitment, d))
          /\ versioned_hash_bytes' = with_version_tag(d)
          /\ versioned_hash' = with_version_tag(d)
    /\ pc' = "opening_point_update"
    /\ UNCHANGED <<panic, pubdata, zksync_blob, keccak256_hasher, linear_hash, blob,
                   kzg_commitment, opening_point_bytes, opening_point, opening_proof,
                   opening_value, blob_proof, info, codec_vars>>

\* keccak256_hasher.update(linear_hash); keccak256_hasher.update(versioned_hash_bytes)
NewOpeningPointUpdate ==
    /\ pc = "opening_point_update"
    /\ keccak256_hasher' = (keccak256_hasher \o linear_hash) \o versioned_hash_bytes
    /\ pc' = "opening_point"
    /\ UNCHANGED <<panic, pubdata, zksync_blob, linear_hash, blob, kzg_commitment,
                   versioned_hash_bytes, versioned_hash, opening_point_bytes,
                   opening_point, opening_proof, opening_value, blob_proof,
                   info, calls, codec_vars>>

\* finalize_reset(); the low 16 bytes of the digest copied into a zeroed Bytes32
NewOpeningPoint ==
    /\ pc = "opening_point"
    /\ \E d \in Digests :
          /\ calls' = Append(calls, Call("keccak256", keccak256_hasher, d))
          /\ opening_point_bytes' = d
          /\ opening_point' = truncate_opening_point(d)
    /\ keccak256_hasher' = <<>>
    /\ pc' = "open"
    /\ UNCHANGED <<panic, pubdata, zksync_blob, linear_hash, blob, kzg_commitment,
                   versioned_hash_bytes, versioned_hash, opening_proof, opening_value,
                   blob_proof, info, codec_vars>>

\* KzgProof::compute_kzg_proof(&blob, &opening_point, kzg_settings).unwrap()
NewOpen ==
    /\ pc = "open"
    /\ \E r \in OpenResults :
          /\ calls' = Append(calls, Call("compute_kzg_proof", <<blob, opening_point>>, r))
          /\ IF r.ok
             THEN /\ opening_proof' = r.val[1]
                  /\ opening_value' = r.val[2]
                  /\ pc' = "blob_proof"
                  /\ UNCHANGED panic
             ELSE /\ pc' = "panic"
                  /\ panic' = Some("compute_kzg_proof")
                  /\ UNCHANGED <<opening_proof, opening_value>>
    /\ UNCHANGED <<pubdata, zksync_blob, keccak256_hasher, linear_hash, blob,
                   kzg_commitment, versioned_hash_bytes, versioned_hash,
                   opening_point_bytes, opening_point, blob_proof, info, codec_vars>>

\* KzgProof::compute_blob_kzg_proof(&blob, &kzg_commitment.to_bytes(), kzg_settings).unwrap()
NewBlobProof ==
    /\ pc = "blob_proof"
    /\ \E r \in BlobProofResults :
          /\ calls' = Append(calls,
                             Call("compute_blob_kzg_proof", <<blob, kzg_commitment>>, r))
          /\ IF r.ok
             THEN blob_proof' = r.val /\ pc' = "return" /\ UNCHANGED panic
             ELSE pc' = "panic" /\ panic' = Some("compute_blob_kzg_proof")
                  /\ UNCHANGED blob_proof
    /\ UNCHANGED <<pubdata, zksync_blob, keccak256_hasher, linear_hash, blob,
                   kzg_commitment, versioned_hash_bytes, versioned_hash,
                   opening_point_bytes, opening_point, opening_proof, opening_value,
                   info, codec_vars>>

\* Self { blob, kzg_commitment, opening_point, .. }
NewReturn ==
    /\ pc = "return"
    /\ info' = Some([blob |-> blob, kzg_commitment |-> kzg_commitment,
                     opening_point |-> opening_point, opening_value |-> opening_value,
                     opening_proof |-> opening_proof, versioned_hash |-> versioned_hash,
                     blob_proof |-> blob_proof])
    /\ pc' = "done"
    /\ UNCHANGED <<panic, pubdata, new_locals, calls, codec_vars>>

\* ------------------------------------------------------- the codec's calls
\* let encoded_info = kzg_info.to_bytes()
ToBytes ==
    /\ pc = "done"
    /\ LET res == to_bytes(Unwrap(info))
       IN  IF IsSome(res)
           THEN encoded' = res /\ pc' = "encoded" /\ UNCHANGED panic
           ELSE pc' = "panic" /\ panic' = Some("to_bytes") /\ UNCHANGED encoded
    /\ UNCHANGED <<pubdata, new_locals, info, calls, data, decoded,
                   pubdata_commitment, decoded_commitment>>

\* KzgInfo::from_slice(&bytes)
FromSlice ==
    /\ pc = "encoded"
    /\ \E bytes \in SliceInputs(Unwrap(encoded)) :
          /\ data' = Some(bytes)
          /\ LET res == from_slice(bytes)
             IN  IF IsSome(res)
                 THEN decoded' = res /\ pc' = "decoded" /\ UNCHANGED panic
                 ELSE pc' = "panic" /\ panic' = Some("LengthMismatch")
                      /\ UNCHANGED decoded
    /\ UNCHANGED <<pubdata, new_locals, info, calls, encoded,
                   pubdata_commitment, decoded_commitment>>

\* kzg_info.to_pubdata_commitment()
ToPubdataCommitment ==
    /\ pc = "decoded"
    /\ pubdata_commitment' = Some(to_pubdata_commitment(Unwrap(info)))
    /\ pc' = "commitment"
    /\ UNCHANGED <<panic, pubdata, new_locals, info, calls, encoded, data, decoded,
                   decoded_commitment>>

\* to_pubdata_commitment() of the deserialized record
ToPubdataCommitmentDecoded ==
    /\ pc = "commitment"
    /\ decoded_commitment' = Some(to_pubdata_commitment(Unwrap(decoded)))
    /\ pc' = "end"
    /\ UNCHANGED <<panic, pubdata, new_locals, info, calls, encoded, data, decoded,
                   pubdata_commitment>>

Next ==
    \/ NewAssertLen
    \/ NewPad
    \/ NewLinearHash
    \/ NewRepack
    \/ NewCommit
    \/ NewVersionedHash
    \/ NewOpeningPointUpdate
    \/ NewOpeningPoint
    \/ NewOpen
    \/ NewBlobProof
    \/ NewReturn
    \/ ToBytes
    \/ FromSlice
    \/ ToPubdataCommitment
    \/ ToPubdataCommitmentDecoded

Spec == Init /\ [][Next]_vars

\* ------------------------------------------------------------- properties
Last(s) == s[Len(s)]

\* The calls whose Err result new unwraps.
Fallible == {"blob_to_kzg_commitment", "compute_kzg_proof", "compute_blob_kzg_proof"}

\* Every field of `rec` lies in `bytes` at the offset of the layout
\* StandardsBlob, Commitment, OpeningPoint, OpeningValue, OpeningProof,
\* VersionedHash, BlobProof.
FieldsAt(bytes, rec) ==
    LET b == BYTES_PER_BLOB
    IN  /\ Slice(bytes, 0, b) = rec.blob
        /\ Slice(bytes, b, b + 48) = rec.kzg_commitment
        /\ Slice(bytes, b + 48, b + 80) = rec.opening_point
        /\ Slice(bytes, b + 80, b + 112) = rec.opening_value
        /\ Slice(bytes, b + 112, b + 160) = rec.opening_proof
        /\ Slice(bytes, b + 160, b + 192) = rec.versioned_hash
        /\ Slice(bytes, b + 192, b + 240) = rec.blob_proof

\* `c` is the 144-byte projection of `rec`.
Projects(c, rec) ==
    /\ Len(c) = 144
    /\ Slice(c, 0, 16) = Slice(rec.opening_point, 16, 32)
    /\ Slice(c, 16, 48) = rec.opening_value
    /\ Slice(c, 48, 96) = rec.kzg_commitment
    /\ Slice(c, 96, 144) = rec.opening_proof

\* Two records agree on the four fields of the compact form.
SameCompactFields(r1, r2) ==
    /\ r1.opening_point = r2.opening_point
    /\ r1.opening_value = r2.opening_value
    /\ r1.kzg_commitment = r2.kzg_commitment
    /\ r1.opening_proof = r2.opening_proof

\* C1 - round trip: when from_slice is given exactly the bytes to_bytes made
\* of a record built by new, it returns a record equal to it in all seven fields.
C1_RoundTrip ==
    (IsSome(data) /\ data = encoded) =>
        /\ IsSome(decoded)
        /\ \A f \in {"blob", "kzg_commitment", "opening_point", "opening_value",
                     "opening_proof", "versioned_hash", "blob_proof"} :
              Unwrap(decoded)[f] = Unwrap(info)[f]
        /\ decoded = info

C1_Witness ==
    /\ IsSome(decoded)
    /\ data = encoded
    /\ Len(pubdata) = BYTES_PER_BLOB_ZK_SYNC
    /\ Unwrap(info).opening_proof # Unwrap(info).blob_proof

\* C2 - compact projection: to_pubdata_commitment returns 144 bytes, the low
\* half of the opening point, the opening value, the commitment and the opening
\* proof back to back; two records that differ only in versioned hash and blob
\* proof have the same projection.
C2_CompactProjection ==
    /\ IsSome(pubdata_commitment) =>
          Projects(Unwrap(pubdata_commitment), Unwrap(info))
    /\ IsSome(decoded_commitment) =>
          /\ Projects(Unwrap(decoded_commitment), Unwrap(decoded))
          /\ SameCompactFields(Unwrap(info), Unwrap(decoded)) =>
                decoded_commitment = pubdata_commitment

C2_Witness ==
    /\ IsSome(decoded_commitment)
    /\ SameCompactFields(Unwrap(info), Unwrap(decoded))
    /\ Unwrap(info).versioned_hash # Unwrap(decoded).versioned_hash
    /\ Unwrap(info).blob_proof # Unwrap(decoded).blob_proof

\* C3 - serialized layout: to_bytes returns SERIALIZED_SIZE = blob + 240 bytes
\* (131312 for 4096 elements of 32 bytes) holding the seven fields back to back
\* in the fixed order, and from_slice reads each field from that same offset.
C3_SerializedLayout ==
    /\ SERIALIZED_SIZE = BYTES_PER_BLOB + 240
    /\ 4096 * BYTES_PER_FIELD_ELEMENT + (SERIALIZED_SIZE - BYTES_PER_BLOB) = 131312
    /\ panic # Some("to_bytes")
    /\ pc \in {"encoded", "decoded", "commitment", "end"} => IsSome(encoded)
    /\ IsSome(encoded) =>
          /\ Len(Unwrap(encoded)) = SERIALIZED_SIZE
          /\ FieldsAt(Unwrap(encoded), Unwrap(info))
    /\ IsSome(decoded) => FieldsAt(Unwrap(data), Unwrap(decoded))

C3_Witness ==
    /\ IsSome(encoded)
    /\ IsSome(decoded)
    /\ data # encoded
    /\ Unwrap(decoded).opening_proof # Unwrap(info).opening_proof

\* C4 - length check: from_slice returns a record exactly when its input has
\* SERIALIZED_SIZE bytes; on any other length it panics and returns nothing.
C4_LengthCheck ==
    IsSome(data) =>
        /\ Len(Unwrap(data)) = SERIALIZED_SIZE =>
              IsSome(decoded) /\ pc # "panic" /\ panic = None
        /\ Len(Unwrap(data)) # SERIALIZED_SIZE =>
              /\ pc = "panic"
              /\ panic = Some("LengthMismatch")
              /\ decoded = None
              /\ decoded_commitment = None

C4_Witness ==
    /\ IsSome(data)
    /\ Len(Unwrap(data)) = SERIALIZED_SIZE - 1
    /\ panic = Some("LengthMismatch")

\* C5 - capacity boundary: pubdata longer than BYTES_PER_BLOB_ZK_SYNC ends new
\* at its first assertion, before the padded blob exists and before any call
\* into another crate; pubdata within the capacity never fails that assertion,
\* and new then ends without a record only when a pairing primitive failed.
C5_CapacityBoundary ==
    /\ Len(pubdata) > BYTES_PER_BLOB_ZK_SYNC =>
          /\ pc \in {"new", "panic"}
          /\ pc = "panic" => panic = Some("CapacityExceeded")
          /\ zksync_blob = None
          /\ keccak256_hasher = <<>>
          /\ calls = <<>>
          /\ info = None
    /\ Len(pubdata) <= BYTES_PER_BLOB_ZK_SYNC =>
          /\ panic # Some("CapacityExceeded")
          /\ pc # "new" => ~(pc = "panic" /\ calls = <<>>)
          /\ (pc = "panic" /\ info = None) =>
                /\ Last(calls).fn \in Fallible
                /\ Last(calls).ret = Err

C5_Witness ==
    /\ pc = "done"
    /\ IsSome(info)
    /\ Len(pubdata) = BYTES_PER_BLOB_ZK_SYNC

\* C6 - opening point: in every record built by new, bytes 0..16 of the opening
\* point are zero and bytes 16..32 are bytes 16..32 of the digest the second
\* Keccak256 finalisation returned.
C6_OpeningPoint ==
    IsSome(info) =>
        /\ Len(Unwrap(info).opening_point) = 32
        /\ Slice(Unwrap(info).opening_point, 0, 16) = Zeros(16)
        /\ calls[5].fn = "keccak256"
        /\ opening_point_bytes = calls[5].ret
        /\ Slice(Unwrap(info).opening_point, 16, 32) = Slice(calls[5].ret, 16, 32)

C6_Witness ==
    /\ IsSome(info)
    /\ \A i \in 1..16 : opening_point_bytes[i] # 0

\* C7 - versioned hash: in every record built by new, byte 0 of the versioned
\* hash is 0x01 and bytes 1..32 are those of the SHA-256 digest of the
\* commitment stored in the same record.
C7_VersionedHash ==
    IsSome(info) =>
        /\ Len(Unwrap(info).versioned_hash) = 32
        /\ Unwrap(info).versioned_hash[1] = 1
        /\ calls[4].fn = "sha256"
        /\ calls[4].args = Unwrap(info).kzg_commitment
        /\ Len(calls[4].args) = 48
        /\ Slice(Unwrap(info).versioned_hash, 1, 32) = Slice(calls[4].ret, 1, 32)
        /\ \A i \in 1..Len(calls) : calls[i].fn = "sha256" => i = 4

C7_Witness ==
    /\ IsSome(info)
    /\ calls[4].ret[1] # 1
    /\ calls[4].ret[32] # 1

\* C8 as stated - the preimage of the opening-point digest is the linear hash
\* followed by the SHA-256 digest as it was before its byte 0 was overwritten.
C8_RawPreimage ==
    IsSome(info) =>
        /\ calls[1].args = zksync_blob
        /\ calls[5].args = calls[1].ret \o calls[4].ret
        /\ Slice(Unwrap(info).opening_point, 16, 32) = Slice(calls[5].ret, 16, 32)

\* C8 - opening-point derivation: the opening point is the truncation of
\* Keccak256(linear_hash || versioned_hash), where linear_hash is the Keccak256
\* digest of the padded blob and versioned_hash is the SHA-256 digest of the
\* commitment with byte 0 already overwritten by 0x01, so that byte 32 of the
\* 64-byte preimage is 0x01.
C8_TaggedPreimage ==
    IsSome(info) =>
        /\ calls[1].fn = "keccak256"
        /\ calls[1].args = zksync_blob
        /\ calls[1].ret = linear_hash
        /\ calls[4].fn = "sha256"
        /\ calls[5].fn = "keccak256"
        /\ calls[5].args = linear_hash \o Unwrap(info).versioned_hash
        /\ calls[5].args = linear_hash \o with_version_tag(calls[4].ret)
        /\ Len(calls[5].args) = 64
        /\ calls[5].args[33] = VERSIONED_HASH_VERSION_KZG
        /\ Unwrap(info).opening_point = Zeros(16) \o Slice(calls[5].ret, 16, 32)

C8_Witness ==
    /\ pc = "done"
    /\ calls[5].args[33] # calls[4].ret[1]
    /\ calls[5].args[33] = 1

\* C9 - all or nothing: a failed commit, open or prove_blob call is the last
\* call of the run, which ends in a panic without a record; a record exists
\* only after all three succeeded, and its fields are the results of that run:
\* the blob of the repacking, the commitment of commit, proof and value of open
\* at the derived opening point, the blob proof of prove_blob over the same
\* blob and commitment.
C9_AllOrNothing ==
    /\ \A i \in 1..Len(calls) :
          (calls[i].fn \in Fallible /\ calls[i].ret = Err) =>
              /\ i = Len(calls)
              /\ pc = "panic"
              /\ panic = Some(calls[i].fn)
              /\ info = None
              /\ encoded = None
    /\ IsSome(info) =>
          /\ Len(calls) = 7
          /\ calls[2].fn = "repack"
          /\ calls[3].fn = "blob_to_kzg_commitment"
          /\ calls[6].fn = "compute_kzg_proof"
          /\ calls[7].fn = "compute_blob_kzg_proof"
          /\ calls[3].ret.ok /\ calls[6].ret.ok /\ calls[7].ret.ok
          /\ Unwrap(info).blob = calls[2].ret
          /\ calls[3].args = Unwrap(info).blob
          /\ Unwrap(info).kzg_commitment = calls[3].ret.val
          /\ calls[6].args = <<Unwrap(info).blob, Unwrap(info).opening_point>>
          /\ Unwrap(info).opening_proof = calls[6].ret.val[1]
          /\ Unwrap(info).opening_value = calls[6].ret.val[2]
          /\ calls[7].args = <<Unwrap(info).blob, Unwrap(info).kzg_commitment>>
          /\ Unwrap(info).blob_proof = calls[7].ret.val

C9_Witness ==
    /\ pc = "panic"
    /\ panic = Some("compute_kzg_proof")
    /\ Len(calls) = 6
    /\ calls[3].ret.ok
    /\ info = None

\* C10 - right padding: the padded blob has BYTES_PER_BLOB_ZK_SYNC bytes, the
\* pubdata in front and zeros behind (all zeros for empty pubdata), and it is
\* the input of the linear hash and of the repacking transform.
C10_RightPadding ==
    /\ zksync_blob # None =>
          /\ Len(zksync_blob) = BYTES_PER_BLOB_ZK_SYNC
          /\ Slice(zksync_blob, 0, Len(pubdata)) = pubdata
          /\ \A i \in (Len(pubdata) + 1)..BYTES_PER_BLOB_ZK_SYNC : zksync_blob[i] = 0
          /\ pubdata = <<>> => zksync_blob = Zeros(BYTES_PER_BLOB_ZK_SYNC)
    /\ Len(calls) >= 1 =>
          /\ calls[1].fn = "keccak256"
          /\ calls[1].args = zksync_blob
    /\ Len(calls) >= 2 =>
          /\ calls[2].fn = "repack"
          /\ calls[2].args = zksync_blob
          /\ calls[2].args = calls[1].args
          /\ Len(calls[2].ret) = BYTES_PER_BLOB

C10_Witness ==
    /\ pc = "commit"
    /\ Len(pubdata) > 0
    /\ Len(pubdata) < BYTES_PER_BLOB_ZK_SYNC
    /\ pubdata[1] # 0
    /\ calls[2].args = zksync_blob

====
